---- MODULE Spec2Model ----
(***************************************************************************)
(* Model of dashboard.py: the interest-rate-swap cash-flow script.         *)
(*                                                                         *)
(* The script is a straight-line program that Streamlit executes from the  *)
(* top on every parameter change.  Each assignment of the script is one    *)
(* action; pc is the position in the script.                               *)
(*                                                                         *)
(* Units.  A date is the integer YYYYMMDD, so that integer order is        *)
(* calendar order.  A rate is in tenths of a percent (the sliders' step    *)
(* is 0.1), the notional in pounds (slider step 1000), a payment in pence: *)
(* with these units notional * rate / 100 * (1/4) is the exact integer     *)
(* notional * rate / 40, so the model computes the payments without the    *)
(* rounding of binary floating point.  A cell of a table is <<v>> when it  *)
(* holds the number v and <<>> when it is missing (pandas NaN / None).     *)
(***************************************************************************)
EXTENDS Integers, Sequences, FiniteSets, TLC

VARIABLES
    csv,                  \* contents of "LIBOR GBP.csv": never written
    pc,                   \* position in the script
    df,                   \* line 44
    df_libor,             \* lines 47-54
    df_q_libor,           \* line 57
    q_start_dates,        \* lines 60-61
    start_date,           \* line 64
    tenure,               \* line 65
    notional_amt,         \* line 68
    fixed_rate,           \* line 69
    spread,               \* line 70
    end_date,             \* line 73
    df_cashflow,          \* lines 76-85
    df_cashflow_contract, \* line 88
    df_q_libor_contract,  \* line 91
    fixed_greater,        \* line 116
    float_greater,        \* line 117
    first,                \* history: parameters and outputs of the first finished run
    runs                  \* history: number of finished runs

vars == <<csv, pc, df, df_libor, df_q_libor, q_start_dates, start_date, tenure,
          notional_amt, fixed_rate, spread, end_date, df_cashflow,
          df_cashflow_contract, df_q_libor_contract, fixed_greater,
          float_greater, first, runs>>

----------------------------------------------------------------------------
(* Bounds of the model *)

\* number of calendar quarters, from BaseYear Q1 on, the input file may cover
MaxQuarters == 6

\* largest tenure the slider offers in the model (the script offers 1..10)
MaxTenure == 2

\* number of executions of the script the model follows
MaxRuns == 3

\* number of quarters of the files the window is tried on with any start date
WindowQuarters == 6

----------------------------------------------------------------------------
(* Missing values *)

NaN == <<>>

Some(v) == <<v>>

notna(x) == x # NaN

\* NaN propagates through -
NanSub(a, b) == IF notna(a) /\ notna(b) THEN Some(a[1] - b[1]) ELSE NaN

----------------------------------------------------------------------------
(* Calendar *)

BaseYear == 2000

MkDate(y, m, d) == y * 10000 + m * 100 + d

YearOf(date) == date \div 10000

MonthOf(date) == (date \div 100) % 100

DayOf(date) == date % 100

IsLeap(y) == (y % 4 = 0 /\ y % 100 # 0) \/ y % 400 = 0

DaysInMonth(y, m) ==
    IF m = 2 THEN (IF IsLeap(y) THEN 29 ELSE 28)
    ELSE IF m \in {4, 6, 9, 11} THEN 30 ELSE 31

\* label of the 'Q' bin a timestamp falls in: the last day of its calendar
\* quarter (bins are closed and labelled on the right)
QuarterEndOf(date) ==
    LET m == 3 * ((MonthOf(date) - 1) \div 3) + 3
    IN  MkDate(YearOf(date), m, DaysInMonth(YearOf(date), m))

\* the quarter end that follows a quarter end
NextQuarterEnd(qe) ==
    IF MonthOf(qe) = 12 THEN MkDate(YearOf(qe) + 1, 3, 31)
    ELSE MkDate(YearOf(qe), MonthOf(qe) + 3, DaysInMonth(YearOf(qe), MonthOf(qe) + 3))

\* date - QuarterBegin(startingMonth=1): the latest of 1 Jan, 1 Apr, 1 Jul,
\* 1 Oct that lies strictly before date
QuarterBeginBefore(date) ==
    LET y == YearOf(date)
        m == MonthOf(date)
        qm == 3 * ((m - 1) \div 3) + 1
    IN  IF DayOf(date) = 1 /\ m = qm
        THEN (IF m = 1 THEN MkDate(y - 1, 10, 1) ELSE MkDate(y, m - 3, 1))
        ELSE MkDate(y, qm, 1)

\* date + DateOffset(years = n): same month and day, the day clipped to the
\* length of the month
AddYears(date, n) ==
    LET y == YearOf(date) + n
        m == MonthOf(date)
        d == DayOf(date)
    IN  MkDate(y, m, IF d > DaysInMonth(y, m) THEN DaysInMonth(y, m) ELSE d)

----------------------------------------------------------------------------
(* The input file *)

Row(date, m3, m6) == [Date |-> date, M3 |-> m3, M6 |-> m6]

\* k-th calendar quarter counted from BaseYear Q1: its first day, a day in
\* its middle, and its last day
QuarterFirstDay(k) == MkDate(BaseYear + (k - 1) \div 4, 3 * ((k - 1) % 4) + 1, 1)

QuarterMidDay(k) == QuarterFirstDay(k) + 100 + 14

QuarterLastDay(k) == QuarterEndOf(QuarterFirstDay(k))

\* Rows the file may hold for quarter k.  Rates are tenths of a percent.

\* one row whose 6M cell is empty
IncompleteRow(k) == << Row(QuarterMidDay(k), Some(30), NaN) >>

\* one complete row, 3M = 9.0
OneRow(k) == << Row(QuarterMidDay(k), Some(90), Some(92)) >>

\* complete rows on the first and on the last day of the quarter (3M = 3.0
\* and 7.0) around a row whose 3M cell is empty
ThreeRows(k) ==
    << Row(QuarterFirstDay(k), Some(30), Some(34)),
       Row(QuarterMidDay(k), NaN, Some(90)),
       Row(QuarterLastDay(k), Some(70), Some(78)) >>

\* one of the above: a quarter of IncompleteRow has no row left after loading
QuarterRows(k) == { IncompleteRow(k), OneRow(k), ThreeRows(k) }

RECURSIVE Tables(_)
\* every file covering the quarters 1..k
Tables(k) ==
    IF k = 0 THEN { << >> }
    ELSE { t \o r : t \in Tables(k - 1), r \in QuarterRows(k) }

----------------------------------------------------------------------------
(* Lines 46-57: loading and resampling *)

\* df[df['3M'].notna() & df['6M'].notna()][['Date', '3M', '6M']]
CompleteRows(t) == SelectSeq(t, LAMBDA r : notna(r.M3) /\ notna(r.M6))

RECURSIVE SumSeq(_)
SumSeq(s) == IF s = << >> THEN 0 ELSE Head(s) + SumSeq(Tail(s))

\* mean of a column of numbers; the mean of no number is NaN
Mean(s) == IF s = << >> THEN NaN ELSE Some(SumSeq(s) \div Len(s))

MinOf(S) == CHOOSE x \in S : \A y \in S : x <= y

MaxOf(S) == CHOOSE x \in S : \A y \in S : y <= x

RECURSIVE QuarterEnds(_, _)
\* the bin labels from one quarter end to another
QuarterEnds(from, to) ==
    IF from > to THEN << >>
    ELSE << from >> \o QuarterEnds(NextQuarterEnd(from), to)

\* the rows of t that fall in the bin labelled qe
RowsOfBin(t, qe) == SelectSeq(t, LAMBDA r : QuarterEndOf(r.Date) = qe)

Column3M(t) == [i \in 1..Len(t) |-> t[i].M3[1]]

Column6M(t) == [i \in 1..Len(t) |-> t[i].M6[1]]

\* Variant: groupby on the quarter instead of resample, which has no entry
\* for a quarter without rows.
ResampleGroupBy(t) ==
    IF t = << >> THEN << >>
    ELSE LET dates == {t[i].Date : i \in 1..Len(t)}
             bins == QuarterEnds(QuarterEndOf(MinOf(dates)), QuarterEndOf(MaxOf(dates)))
             used == SelectSeq(bins, LAMBDA b : RowsOfBin(t, b) # << >>)
         IN  [i \in 1..Len(used) |->
                 Row(used[i], Mean(Column3M(RowsOfBin(t, used[i]))),
                              Mean(Column6M(RowsOfBin(t, used[i]))))]

\* df_libor.resample('Q').mean(): one entry per bin from the bin of the
\* earliest row to the bin of the latest one
ResampleQMean(t) ==
    IF t = << >> THEN << >>
    ELSE LET dates == {t[i].Date : i \in 1..Len(t)}
             bins == QuarterEnds(QuarterEndOf(MinOf(dates)), QuarterEndOf(MaxOf(dates)))
         IN  [i \in 1..Len(bins) |->
                 Row(bins[i], Mean(Column3M(RowsOfBin(t, bins[i]))),
                              Mean(Column6M(RowsOfBin(t, bins[i]))))]

----------------------------------------------------------------------------
(* Lines 59-61: start dates *)

\* Variant: s[k:], which drops the oldest entries.
DropFirst(s, k) == IF Len(s) > k THEN SubSeq(s, k + 1, Len(s)) ELSE << >>

\* s[:-k]
DropLast(s, k) == IF Len(s) > k THEN SubSeq(s, 1, Len(s) - k) ELSE << >>

\* number of trailing quarters line 61 drops
ExcludeTrailing == 4

\* Variant: the quarter-end labels themselves, without the QuarterBegin offset.
QStartDatesNoOffset(q) ==
    DropLast([i \in 1..Len(q) |-> q[i].Date], ExcludeTrailing)

QStartDates(q) ==
    DropLast([i \in 1..Len(q) |-> QuarterBeginBefore(q[i].Date)], ExcludeTrailing)

----------------------------------------------------------------------------
(* Lines 63-73: contract parameters *)

\* The sliders' values the model draws from (the script: 1000..250000 step
\* 1000, 1.0..10.0 step 0.1, 0.0..5.0 step 0.1).
NotionalChoices == {1000, 100000}

FixedRateChoices == {50, 70}

SpreadChoices == {0, 20}

TenureChoices == 1..MaxTenure

\* st.sidebar.selectbox raises when its default index is not an index of the
\* options.  The script's default is index 56 of a file spanning decades; the
\* files of the model span at most MaxQuarters quarters, so the model keeps
\* the condition with the default scaled to the first option.
SelectboxOk(options) == Len(options) > 0

ContractEnd(start, years) == AddYears(start, years)

----------------------------------------------------------------------------
(* Lines 75-91: cash flows *)

\* Variant: a period of half a year, (1/2).
PaymentHalfYear(notional, rate) == (notional * rate * 100) \div (10 * 100 * 2)

\* notional * rate / 100 * (1/4) pounds, rate in percent: in pence, with the
\* rate in tenths of a percent, notional * rate * 100 / (10 * 100 * 4)
Payment(notional, rate) == (notional * rate * 100) \div (10 * 100 * 4)

\* Variant: a missing rate taken as 0, as after fillna(0).
FloatingPaymentFillZero(notional, libor, spr) ==
    Some(Payment(notional, (IF notna(libor) THEN libor[1] ELSE 0) + spr))

\* line 83, one cell
FloatingPayment(notional, libor, spr) ==
    IF notna(libor) THEN Some(Payment(notional, libor[1] + spr)) ELSE NaN

\* line 84: a scalar, broadcast to every row
FixedPayment(notional, rate) == Some(Payment(notional, rate))

\* line 85, one cell
NetCashFlow(fixed, floating) == NanSub(fixed, floating)

\* Variant: the spread added in place to a rate column that is kept from run
\* to run, so that the (runs + 1)-th run sees it added runs + 1 times.
CashflowInPlace(q, notional, rate, spr) ==
    [i \in 1..Len(q) |->
        LET floating == FloatingPayment(notional, q[i].M3, spr * (runs + 1))
            fixed == FixedPayment(notional, rate)
        IN  [Date |-> q[i].Date,
             libor_3m |-> q[i].M3,
             floating_payment |-> floating,
             fixed_payment |-> fixed,
             net_cash_flow |-> NetCashFlow(fixed, floating)]]

\* lines 76-85
Cashflow(q, notional, rate, spr) ==
    [i \in 1..Len(q) |->
        LET floating == FloatingPayment(notional, q[i].M3, spr)
            fixed == FixedPayment(notional, rate)
        IN  [Date |-> q[i].Date,
             libor_3m |-> q[i].M3,
             floating_payment |-> floating,
             fixed_payment |-> fixed,
             net_cash_flow |-> NetCashFlow(fixed, floating)]]

\* Variant: the end bound excluded, frame.index < end.
WindowEndExcluded(frame, start, end) ==
    SelectSeq(frame, LAMBDA r : r.Date >= start /\ r.Date < end)

\* Variant: the two conditions joined by | instead of &.
WindowEither(frame, start, end) ==
    SelectSeq(frame, LAMBDA r : r.Date >= start \/ r.Date <= end)

\* Variant: nothing selected when end is not among the dates of the frame's span.
WindowWithinSpan(frame, start, end) ==
    IF frame # << >> /\ end > frame[Len(frame)].Date THEN << >>
    ELSE SelectSeq(frame, LAMBDA r : r.Date >= start /\ r.Date <= end)

\* lines 88 and 91: frame[(frame.index >= start) & (frame.index <= end)]
Window(frame, start, end) ==
    SelectSeq(frame, LAMBDA r : r.Date >= start /\ r.Date <= end)

----------------------------------------------------------------------------
(* Lines 115-117: the two scenarios *)

\* x > 0 and x < 0 on a float cell: both are False on NaN
GreaterThanZero(x) == notna(x) /\ x[1] > 0

\* Variant: x <= 0.
AtMostZero(x) == notna(x) /\ x[1] <= 0

LessThanZero(x) == notna(x) /\ x[1] < 0

\* frame['net_cash_flow'].apply(lambda x: x if x > 0 else None)
FixedGreater(frame) ==
    [i \in 1..Len(frame) |->
        [Date |-> frame[i].Date,
         value |-> IF GreaterThanZero(frame[i].net_cash_flow)
                   THEN frame[i].net_cash_flow ELSE NaN]]

\* frame['net_cash_flow'].apply(lambda x: x if x < 0 else None)
FloatGreater(frame) ==
    [i \in 1..Len(frame) |->
        [Date |-> frame[i].Date,
         value |-> IF LessThanZero(frame[i].net_cash_flow)
                   THEN frame[i].net_cash_flow ELSE NaN]]

----------------------------------------------------------------------------
(* The script *)

\* a name the run has not assigned yet
Unbound == << >>

NoRun == << >>

\* the script about to start on one of the files of T
InitWith(T) ==
    /\ csv \in T
    /\ pc = "read_csv"
    /\ df = Unbound
    /\ df_libor = Unbound
    /\ df_q_libor = Unbound
    /\ q_start_dates = Unbound
    /\ start_date = Unbound
    /\ tenure = Unbound
    /\ notional_amt = Unbound
    /\ fixed_rate = Unbound
    /\ spread = Unbound
    /\ end_date = Unbound
    /\ df_cashflow = Unbound
    /\ df_cashflow_contract = Unbound
    /\ df_q_libor_contract = Unbound
    /\ fixed_greater = Unbound
    /\ float_greater = Unbound
    /\ first = NoRun
    /\ runs = 0

Init == InitWith(Tables(MaxQuarters))

\* line 44
ReadCsv ==
    /\ pc = "read_csv"
    /\ df' = csv
    /\ pc' = "filter"
    /\ UNCHANGED <<csv, df_libor, df_q_libor, q_start_dates, start_date, tenure,
                   notional_amt, fixed_rate, spread, end_date, df_cashflow,
                   df_cashflow_contract, df_q_libor_contract, fixed_greater,
                   float_greater, first, runs>>

\* lines 47-54
FilterComplete ==
    /\ pc = "filter"
    /\ df_libor' = CompleteRows(df)
    /\ pc' = "resample"
    /\ UNCHANGED <<csv, df, df_q_libor, q_start_dates, start_date, tenure,
                   notional_amt, fixed_rate, spread, end_date, df_cashflow,
                   df_cashflow_contract, df_q_libor_contract, fixed_greater,
                   float_greater, first, runs>>

\* line 57
Resample ==
    /\ pc = "resample"
    /\ df_q_libor' = ResampleQMean(df_libor)
    /\ pc' = "anchors"
    /\ UNCHANGED <<csv, df, df_libor, q_start_dates, start_date, tenure,
                   notional_amt, fixed_rate, spread, end_date, df_cashflow,
                   df_cashflow_contract, df_q_libor_contract, fixed_greater,
                   float_greater, first, runs>>

\* lines 60-61
StartDates ==
    /\ pc = "anchors"
    /\ q_start_dates' = QStartDates(df_q_libor)
    /\ pc' = "sidebar"
    /\ UNCHANGED <<csv, df, df_libor, df_q_libor, start_date, tenure,
                   notional_amt, fixed_rate, spread, end_date, df_cashflow,
                   df_cashflow_contract, df_q_libor_contract, fixed_greater,
                   float_greater, first, runs>>

\* lines 64-70: the user's choices
Sidebar ==
    /\ pc = "sidebar"
    /\ SelectboxOk(q_start_dates)
    /\ \E i \in 1..Len(q_start_dates) : start_date' = q_start_dates[i]
    /\ tenure' \in TenureChoices
    /\ notional_amt' \in NotionalChoices
    /\ fixed_rate' \in FixedRateChoices
    /\ spread' \in SpreadChoices
    /\ pc' = "end_date"
    /\ UNCHANGED <<csv, df, df_libor, df_q_libor, q_start_dates, end_date,
                   df_cashflow, df_cashflow_contract, df_q_libor_contract,
                   fixed_greater, float_greater, first, runs>>

\* line 64 raising: the run stops with an exception
SidebarRaises ==
    /\ pc = "sidebar"
    /\ ~SelectboxOk(q_start_dates)
    /\ pc' = "error"
    /\ UNCHANGED <<csv, df, df_libor, df_q_libor, q_start_dates, start_date,
                   tenure, notional_amt, fixed_rate, spread, end_date, df_cashflow,
                   df_cashflow_contract, df_q_libor_contract, fixed_greater,
                   float_greater, first, runs>>

\* line 73
EndDate ==
    /\ pc = "end_date"
    /\ end_date' = ContractEnd(start_date, tenure)
    /\ pc' = "cashflow"
    /\ UNCHANGED <<csv, df, df_libor, df_q_libor, q_start_dates, start_date,
                   tenure, notional_amt, fixed_rate, spread, df_cashflow,
                   df_cashflow_contract, df_q_libor_contract, fixed_greater,
                   float_greater, first, runs>>

\* lines 76-85
CashflowFrame ==
    /\ pc = "cashflow"
    /\ df_cashflow' = Cashflow(df_q_libor, notional_amt, fixed_rate, spread)
    /\ pc' = "contract"
    /\ UNCHANGED <<csv, df, df_libor, df_q_libor, q_start_dates, start_date,
                   tenure, notional_amt, fixed_rate, spread, end_date,
                   df_cashflow_contract, df_q_libor_contract, fixed_greater,
                   float_greater, first, runs>>

\* lines 88 and 91
Contract ==
    /\ pc = "contract"
    /\ df_cashflow_contract' = Window(df_cashflow, start_date, end_date)
    /\ df_q_libor_contract' = Window(df_q_libor, start_date, end_date)
    /\ pc' = "classify"
    /\ UNCHANGED <<csv, df, df_libor, df_q_libor, q_start_dates, start_date,
                   tenure, notional_amt, fixed_rate, spread, end_date, df_cashflow,
                   fixed_greater, float_greater, first, runs>>

\* what a finished run was given and what it produced
RunRecord ==
    [df_q_libor |-> df_q_libor,
     params |-> <<start_date, tenure, notional_amt, fixed_rate, spread>>,
     df_cashflow |-> df_cashflow,
     df_cashflow_contract |-> df_cashflow_contract,
     df_q_libor_contract |-> df_q_libor_contract,
     fixed_greater |-> fixed_greater',
     float_greater |-> float_greater']

\* lines 116-117; the rest of the script only draws
Classify ==
    /\ pc = "classify"
    /\ fixed_greater' = FixedGreater(df_cashflow_contract)
    /\ float_greater' = FloatGreater(df_cashflow_contract)
    /\ pc' = "done"
    /\ first' = IF first = NoRun THEN << RunRecord >> ELSE first
    /\ runs' = runs + 1
    /\ UNCHANGED <<csv, df, df_libor, df_q_libor, q_start_dates, start_date,
                   tenure, notional_amt, fixed_rate, spread, end_date, df_cashflow,
                   df_cashflow_contract, df_q_libor_contract>>

\* a parameter change: Streamlit executes the script again from the top, in
\* a fresh namespace
Rerun ==
    /\ pc = "done"
    /\ runs < MaxRuns
    /\ pc' = "read_csv"
    /\ df' = Unbound
    /\ df_libor' = Unbound
    /\ df_q_libor' = Unbound
    /\ q_start_dates' = Unbound
    /\ start_date' = Unbound
    /\ tenure' = Unbound
    /\ notional_amt' = Unbound
    /\ fixed_rate' = Unbound
    /\ spread' = Unbound
    /\ end_date' = Unbound
    /\ df_cashflow' = Unbound
    /\ df_cashflow_contract' = Unbound
    /\ df_q_libor_contract' = Unbound
    /\ fixed_greater' = Unbound
    /\ float_greater' = Unbound
    /\ UNCHANGED <<csv, first, runs>>

\* one execution of the script
Next ==
    \/ ReadCsv
    \/ FilterComplete
    \/ Resample
    \/ StartDates
    \/ Sidebar
    \/ SidebarRaises
    \/ EndDate
    \/ CashflowFrame
    \/ Contract
    \/ Classify

Spec == Init /\ [][Next]_vars

----------------------------------------------------------------------------
(* Repeated executions: the script runs again after every parameter change *)

RECURSIVE PlainTable(_)
\* the file whose quarters 1..k hold OneRow and ThreeRows in turn
PlainTable(k) ==
    IF k = 0 THEN << >>
    ELSE PlainTable(k - 1) \o (IF k % 2 = 1 THEN OneRow(k) ELSE ThreeRows(k))

\* files whose last quarter is any of QuarterRows and whose other quarters
\* are plain, and a file too short to offer a start date
RunsTables ==
    { PlainTable(MaxQuarters - 1) \o r : r \in QuarterRows(MaxQuarters) }
        \cup { PlainTable(ExcludeTrailing) }

InitRuns == InitWith(RunsTables)

NextRuns == Next \/ Rerun

SpecRuns == InitRuns /\ [][NextRuns]_vars

----------------------------------------------------------------------------
(* The window and the classifier as functions of any start date *)

\* start dates before, inside and after the quarters of the file, on and off
\* the dates of the quarterly entries
AnyStartDates ==
    { MkDate(BaseYear - 4, 1, 1),
      MkDate(BaseYear - 1, 6, 30),
      QuarterFirstDay(1),
      QuarterLastDay(1),
      QuarterLastDay(2),
      QuarterFirstDay(3),
      MkDate(BaseYear + 5, 1, 1) }

\* files of 1..WindowQuarters quarters whose last quarter is any of
\* QuarterRows and whose other quarters are plain
WindowTables ==
    UNION { { PlainTable(k - 1) \o r : r \in QuarterRows(k) } : k \in 1..WindowQuarters }

InitWindow == InitWith(WindowTables)

\* lines 64-70 with start_date any date
SidebarAnyStart ==
    /\ pc = "sidebar"
    /\ df_q_libor # << >>
    /\ start_date' \in AnyStartDates
    /\ tenure' \in TenureChoices
    /\ notional_amt' \in NotionalChoices
    /\ fixed_rate' \in FixedRateChoices
    /\ spread' \in SpreadChoices
    /\ pc' = "end_date"
    /\ UNCHANGED <<csv, df, df_libor, df_q_libor, q_start_dates, end_date,
                   df_cashflow, df_cashflow_contract, df_q_libor_contract,
                   fixed_greater, float_greater, first, runs>>

NextWindow ==
    \/ ReadCsv
    \/ FilterComplete
    \/ Resample
    \/ StartDates
    \/ SidebarAnyStart
    \/ EndDate
    \/ CashflowFrame
    \/ Contract
    \/ Classify

SpecWindow == InitWindow /\ [][NextWindow]_vars

----------------------------------------------------------------------------
(* Properties *)

\* positions of the script at which a name is assigned
HasQuarterly ==
    pc \in {"anchors", "sidebar", "error", "end_date", "cashflow", "contract",
            "classify", "done"}

HasAnchors ==
    pc \in {"sidebar", "error", "end_date", "cashflow", "contract", "classify", "done"}

HasCashflow == pc \in {"contract", "classify", "done"}

HasWindow == pc \in {"classify", "done"}

\* calendar quarters counted from year 0
QuarterNumber(date) == YearOf(date) * 4 + (MonthOf(date) - 1) \div 3

RECURSIVE SumOver(_, _)
\* sum of f[i] over the finite set S
SumOver(S, f) ==
    IF S = {} THEN 0
    ELSE LET i == CHOOSE j \in S : TRUE IN f[i] + SumOver(S \ {i}, f)

\* the rows of the file with both tenors present, by position
LoadedRows == {i \in 1..Len(csv) : csv[i].M3 # << >> /\ csv[i].M6 # << >>}

\* the loaded rows of one calendar quarter
LoadedIn(k) == {i \in LoadedRows : QuarterNumber(csv[i].Date) = k}

\* cell holds the exact mean of f over the rows S, and is missing when S is empty
IsMeanOf(cell, S, f) ==
    IF S = {} THEN cell = << >>
    ELSE cell # << >> /\ cell[1] * Cardinality(S) = SumOver(S, f)

\* C8: the quarterly series has one entry for every calendar quarter from the
\* quarter of the earliest loaded row to the quarter of the latest one, in
\* ascending order without gap or duplicate; an entry holds, per tenor, the mean
\* of the loaded rows of its quarter, and a missing value when there is none.
\* Stated of the series as line 57 leaves it and as the run ends with it.
C8_QuarterlySeries ==
    pc \in {"anchors", "error", "done"} =>
        IF LoadedRows = {} THEN df_q_libor = << >>
        ELSE LET qs == {QuarterNumber(csv[i].Date) : i \in LoadedRows}
                 lo == CHOOSE k \in qs : \A j \in qs : k <= j
                 hi == CHOOSE k \in qs : \A j \in qs : j <= k
             IN  /\ Len(df_q_libor) = hi - lo + 1
                 /\ \A i \in 1..Len(df_q_libor) :
                        /\ QuarterNumber(df_q_libor[i].Date) = lo + i - 1
                        /\ IsMeanOf(df_q_libor[i].M3, LoadedIn(lo + i - 1),
                                    [j \in 1..Len(csv) |-> csv[j].M3[1]])
                        /\ IsMeanOf(df_q_libor[i].M6, LoadedIn(lo + i - 1),
                                    [j \in 1..Len(csv) |-> csv[j].M6[1]])

\* a series with a quarter without loaded rows between a quarter of one row and
\* a quarter of two rows of different rates, from a file whose first row is dropped
C8_Witness ==
    /\ pc = "done"
    /\ Len(df_q_libor) >= 3
    /\ csv # << >> /\ 1 \notin LoadedRows
    /\ \E i, j, k \in 1..Len(df_q_libor) :
          /\ i < j /\ j < k
          /\ df_q_libor[i].M3 = << 90 >>
          /\ df_q_libor[j].M3 = << >>
          /\ df_q_libor[k].M3 = << 50 >>
          /\ Cardinality(LoadedIn(QuarterNumber(df_q_libor[k].Date))) = 2

\* first day of the calendar quarter of a date
FirstDayOfQuarter(date) ==
    MkDate(YearOf(date), 3 * ((MonthOf(date) - 1) \div 3) + 1, 1)

\* C6 as stated: n quarterly entries give n - 4 start dates, the i-th the first
\* day of the quarter of the i-th entry.
C6_AsStated ==
    HasAnchors =>
        /\ Len(q_start_dates) = Len(df_q_libor) - 4
        /\ \A i \in 1..Len(q_start_dates) :
               q_start_dates[i] = FirstDayOfQuarter(df_q_libor[i].Date)

\* C6 amended: n >= 4 quarterly entries give n - 4 start dates, oldest first, the
\* i-th the first day of the quarter of the i-th entry, so that exactly the last 4
\* entries have none; fewer than 4 entries give no start date.
C6_Anchors ==
    HasAnchors =>
        /\ Len(df_q_libor) >= 4 => Len(q_start_dates) = Len(df_q_libor) - 4
        /\ Len(df_q_libor) < 4 => q_start_dates = << >>
        /\ \A i \in 1..Len(q_start_dates) :
               q_start_dates[i] = FirstDayOfQuarter(df_q_libor[i].Date)
        /\ \A i \in 1..Len(df_q_libor) :
               (\E j \in 1..Len(q_start_dates) :
                    q_start_dates[j] = FirstDayOfQuarter(df_q_libor[i].Date))
                   <=> i <= Len(df_q_libor) - 4

\* start dates computed from a series of more than 5 entries
C6_Witness ==
    /\ HasAnchors
    /\ Len(df_q_libor) = MaxQuarters
    /\ Len(q_start_dates) = MaxQuarters - 4
    /\ q_start_dates[2] = MkDate(BaseYear, 4, 1)

\* C1: the full cash-flow sequence has one record per quarterly entry, and a
\* record whose 3M rate is present has floating_payment = notional * (rate +
\* spread) / 100 / 4, fixed_payment = notional * fixed_rate / 100 / 4 and
\* net_cash_flow = fixed_payment - floating_payment; fixed_payment is the same
\* in every record; notional 100000, fixed rate 7.0, spread 2.0 and rate 5.0
\* give 1750.00 for both payments and a net cash flow of 0.  (Rates are tenths
\* of a percent and payments pence, so pounds * 100 / 4 / 10 / 100 is pence / 4000
\* times 100.)
C1_PaymentFormulas ==
    HasCashflow =>
        /\ Len(df_cashflow) = Len(df_q_libor)
        /\ \A i \in 1..Len(df_cashflow) :
               LET r == df_cashflow[i] IN
               /\ r.Date = df_q_libor[i].Date
               /\ r.libor_3m = df_q_libor[i].M3
               /\ r.fixed_payment # << >>
               /\ r.fixed_payment[1] * 4 * 100 * 10 = notional_amt * fixed_rate * 100
               /\ r.fixed_payment = df_cashflow[1].fixed_payment
               /\ df_q_libor[i].M3 # << >> =>
                      /\ r.floating_payment # << >>
                      /\ r.floating_payment[1] * 4 * 100 * 10
                             = notional_amt * (df_q_libor[i].M3[1] + spread) * 100
                      /\ r.net_cash_flow # << >>
                      /\ r.net_cash_flow[1]
                             = r.fixed_payment[1] - r.floating_payment[1]
               /\ (notional_amt = 100000 /\ fixed_rate = 70 /\ spread = 20
                       /\ df_q_libor[i].M3 = << 50 >>) =>
                      /\ r.floating_payment = << 175000 >>
                      /\ r.fixed_payment = << 175000 >>
                      /\ r.net_cash_flow = << 0 >>

\* the example of the claim in a record that lies outside the contract window
C1_Witness ==
    /\ pc = "done"
    /\ notional_amt = 100000 /\ fixed_rate = 70 /\ spread = 20
    /\ \E i \in 1..Len(df_cashflow) :
          /\ df_cashflow[i].libor_3m = << 50 >>
          /\ df_cashflow[i].net_cash_flow = << 0 >>
          /\ df_cashflow[i].Date > end_date

\* C7: a quarter whose 3M rate is missing has a record with a missing
\* floating_payment and a missing net_cash_flow in the full sequence, and the
\* same record in the windowed sequence when its date lies in the window; the
\* run goes on to its end.
C7_MissingPropagation ==
    /\ HasCashflow =>
           \A i \in 1..Len(df_q_libor) :
               df_q_libor[i].M3 = << >> =>
                   /\ df_cashflow[i].Date = df_q_libor[i].Date
                   /\ df_cashflow[i].floating_payment = << >>
                   /\ df_cashflow[i].net_cash_flow = << >>
    /\ HasWindow =>
           \A i \in 1..Len(df_q_libor) :
               (/\ df_q_libor[i].M3 = << >>
                /\ start_date <= df_q_libor[i].Date
                /\ df_q_libor[i].Date <= end_date) =>
                   \E j \in 1..Len(df_cashflow_contract) :
                       /\ df_cashflow_contract[j].Date = df_q_libor[i].Date
                       /\ df_cashflow_contract[j].floating_payment = << >>
                       /\ df_cashflow_contract[j].net_cash_flow = << >>
    /\ HasWindow =>
           \A j \in 1..Len(df_cashflow_contract) :
               df_cashflow_contract[j].libor_3m = << >> =>
                   /\ df_cashflow_contract[j].floating_payment = << >>
                   /\ df_cashflow_contract[j].net_cash_flow = << >>
    /\ (pc = "error" => q_start_dates = << >>)

\* a finished run with a quarter of missing rate inside the window and another
\* one after it
C7_Witness ==
    /\ pc = "done"
    /\ \E j \in 1..Len(df_cashflow_contract) :
          df_cashflow_contract[j].libor_3m = << >>
    /\ \E i \in 1..Len(df_cashflow) :
          df_cashflow[i].libor_3m = << >> /\ df_cashflow[i].Date > end_date

\* C2: the two sequences of the classifier have the dates and the length of the
\* windowed sequence; in every period fixed_greater is defined, and then equal to
\* net_cash_flow, iff net_cash_flow > 0, and float_greater iff net_cash_flow < 0;
\* never both, and neither exactly when net_cash_flow is 0 or missing.
C2_Classifier ==
    pc = "done" =>
        /\ Len(fixed_greater) = Len(df_cashflow_contract)
        /\ Len(float_greater) = Len(df_cashflow_contract)
        /\ \A j \in 1..Len(df_cashflow_contract) :
               LET net == df_cashflow_contract[j].net_cash_flow
                   fx == fixed_greater[j].value
                   fl == float_greater[j].value
               IN  /\ fixed_greater[j].Date = df_cashflow_contract[j].Date
                   /\ float_greater[j].Date = df_cashflow_contract[j].Date
                   /\ fx # << >> <=> (net # << >> /\ net[1] > 0)
                   /\ fl # << >> <=> (net # << >> /\ net[1] < 0)
                   /\ fx # << >> => fx = net
                   /\ fl # << >> => fl = net
                   /\ ~(fx # << >> /\ fl # << >>)
                   /\ (fx = << >> /\ fl = << >>) <=> (net = << >> \/ net = << 0 >>)

\* a window with a positive, a negative and a missing net cash flow
C2_Witness ==
    /\ pc = "done"
    /\ \E a, b, c \in 1..Len(df_cashflow_contract) :
          /\ fixed_greater[a].value # << >>
          /\ float_greater[b].value # << >>
          /\ df_cashflow_contract[c].net_cash_flow = << >>

\* a window with a net cash flow of zero
C2_WitnessZero ==
    /\ pc = "done"
    /\ \E a \in 1..Len(df_cashflow_contract) :
          df_cashflow_contract[a].net_cash_flow = << 0 >>

\* positions of the records of the full sequence dated from start_date to
\* end_date, both included
InWindow ==
    {i \in 1..Len(df_cashflow) :
        start_date <= df_cashflow[i].Date /\ df_cashflow[i].Date <= end_date}

\* C3: the windowed sequence holds exactly the records of the full sequence
\* with start_date <= period_date <= end_date, in the order of the full
\* sequence and field for field equal to them, and windowing leaves the full
\* sequence as the cash-flow step built it.
C3_WindowIsFilter ==
    HasWindow =>
        /\ Len(df_cashflow_contract) = Cardinality(InWindow)
        /\ \A j \in 1..Len(df_cashflow_contract) :
               \E i \in InWindow :
                   /\ df_cashflow_contract[j] = df_cashflow[i]
                   /\ Cardinality({k \in InWindow : k < i}) = j - 1
        /\ df_cashflow = Cashflow(df_q_libor, notional_amt, fixed_rate, spread)

\* a window whose first record is dated start_date and whose last record is
\* dated end_date, after a record of the full sequence that it leaves out
C3_Witness ==
    /\ HasWindow
    /\ Len(df_cashflow_contract) >= 2
    /\ df_cashflow_contract[1].Date = start_date
    /\ df_cashflow_contract[Len(df_cashflow_contract)].Date = end_date
    /\ df_cashflow[1].Date < start_date

\* C3 on the runs of the script, where start_date is one of q_start_dates
C3_WitnessAnchor ==
    /\ HasWindow
    /\ df_cashflow_contract # << >>
    /\ df_cashflow[1].Date < start_date
    /\ df_cashflow[Len(df_cashflow)].Date > end_date

\* C4 as stated: when end_date is not within the dates of the quarterly
\* series, the window is empty.
C4_AsStated ==
    (HasWindow /\ df_q_libor # << >>
        /\ ~(df_q_libor[1].Date <= end_date
             /\ end_date <= df_q_libor[Len(df_q_libor)].Date))
        => df_cashflow_contract = << >>

\* C4 amended: when end_date lies after the last quarterly entry, the window
\* holds the records from the quarter of start_date to the last entry: it is cut
\* short, not empty, and the run goes on to its end.
C4_WindowCutShort ==
    /\ (HasWindow /\ end_date > df_q_libor[Len(df_q_libor)].Date) =>
           /\ df_cashflow_contract # << >>
           /\ \E i \in 1..Len(df_cashflow) :
                  /\ FirstDayOfQuarter(df_cashflow[i].Date) = start_date
                  /\ df_cashflow_contract = SubSeq(df_cashflow, i, Len(df_cashflow))
    /\ pc = "error" => q_start_dates = << >>
    /\ pc = "done" => Len(fixed_greater) = Len(df_cashflow_contract)

\* a finished run whose end_date lies after the last quarterly entry
C4_Witness ==
    /\ pc = "done"
    /\ end_date > df_q_libor[Len(df_q_libor)].Date
    /\ Len(df_cashflow_contract) < 4 * tenure
    /\ Len(df_cashflow_contract) > 4

\* C5: when end_date precedes the earliest quarterly entry or start_date follows
\* the latest one, the windowed sequence is empty and the classifier returns two
\* empty sequences.
C5_EmptyWindow ==
    (HasWindow /\ df_q_libor # << >>
        /\ (end_date < df_q_libor[1].Date
            \/ start_date > df_q_libor[Len(df_q_libor)].Date)) =>
        /\ df_cashflow_contract = << >>
        /\ pc = "done" => fixed_greater = << >> /\ float_greater = << >>

\* a finished run whose end_date precedes the earliest quarterly entry
C5_Witness ==
    /\ pc = "done"
    /\ df_cashflow # << >>
    /\ end_date < df_q_libor[1].Date
    /\ fixed_greater = << >>

\* a finished run whose start_date follows the latest quarterly entry
C5_WitnessAfter ==
    /\ pc = "done"
    /\ df_cashflow # << >>
    /\ start_date > df_q_libor[Len(df_q_libor)].Date
    /\ float_greater = << >>

\* C10: with start_date the i-th start date and n quarterly entries, the window
\* holds the records i .. i + min(4 * tenure, n - i + 1) - 1 of the full
\* sequence: it starts with the record of the quarter of start_date, holds at
\* least 4 records, and does not hold the record of the quarter that begins at
\* end_date.
C10_AnchorWindow ==
    HasWindow =>
        \E i \in 1..Len(q_start_dates) :
            LET n == Len(df_q_libor)
                rest == n - i + 1
                len == IF 4 * tenure < rest THEN 4 * tenure ELSE rest
            IN  /\ q_start_dates[i] = start_date
                /\ df_cashflow_contract = SubSeq(df_cashflow, i, i + len - 1)
                /\ Len(df_cashflow_contract) = len
                /\ len >= 4
                /\ df_cashflow_contract[1].Date = df_q_libor[i].Date
                /\ FirstDayOfQuarter(df_cashflow_contract[1].Date) = start_date
                /\ \A j \in 1..Len(df_cashflow_contract) :
                       FirstDayOfQuarter(df_cashflow_contract[j].Date) # end_date

\* a window of 4 * tenure records that starts after the first record and ends
\* before the record of the quarter that begins at end_date
C10_Witness ==
    /\ HasWindow
    /\ Len(df_cashflow_contract) = 4 * tenure
    /\ df_cashflow[1].Date < start_date
    /\ \E i \in 1..Len(df_cashflow) :
          FirstDayOfQuarter(df_cashflow[i].Date) = end_date

\* a window cut short by the end of the series
C10_WitnessShort ==
    /\ HasWindow
    /\ Len(df_cashflow_contract) < 4 * tenure

\* the parameters of the run in progress
Params == <<start_date, tenure, notional_amt, fixed_rate, spread>>

====
